---- MODULE Spec2Model ----
(***************************************************************************)
(* Tabular Q-learning and quantile-regression Q-learning on the Chain MDP  *)
(* (MDP.py): Chain, BaseAgent.eval, QAgent, QuantileAgent,                 *)
(* check_optimality and run_episodes.                                      *)
(*                                                                         *)
(* Numbers.  Every real quantity of a run (rewards, table entries,         *)
(* targets) is held as an integer count of 1/Unit(kind), so 1.0 is         *)
(* Unit(kind) and the bonus 10.0 is 10 * Unit(kind).  The learning rates   *)
(* and the noise values are chosen so that every product and quotient the  *)
(* program forms is a whole count (ArithmeticExact below is checked by     *)
(* TLC): the model rounds nothing, and an equality of the model is an      *)
(* equality of the real numbers the program computes.  Quantities that     *)
(* carry another factor say so in their name (MeanN is n times the mean,   *)
(* LossNum is the loss times 4 n^3 Scale^2).                               *)
(*                                                                         *)
(* Randomness.  np.random.rand() < epsilon is a free choice between the    *)
(* random and the greedy branch (0 < epsilon < 1), np.random.choice and    *)
(* np.random.randint are free choices of an element, np.random.randn() is  *)
(* a free choice in NoiseVals.                                             *)
(*                                                                         *)
(* The accumulated return (total_rewards of episode() and of eval()) is    *)
(* only printed or returned, never read back, and is not part of the       *)
(* state.  eval() is called on the agent after run_episodes has returned.  *)
(***************************************************************************)
EXTENDS Integers, FiniteSets, Sequences, TLC

\* ---------------------------------------------------------------- bounds
\* Chains with reward noise: run_episodes(agent, max_steps = MaxBudget) on
\* Chain(num_states) for num_states in 1..MaxN.
MaxBudget == 4
MaxN == 2
\* Chains without reward noise (up_std = left_std = 0): max_steps in
\* 0..MaxBudgetNoNoise, num_states in 1..MaxNNoNoise.
MaxBudgetNoNoise == 6
MaxNNoNoise == 3
\* The numbers of a QuantileAgent run are counts of 1/(2 * Resolution).
Resolution == 1

\* ------------------------------------------------------ program constants
\* Chain.action_dim
ActionDim == 2
\* the terminal bonus 10.0 of Chain.step, in whole units
BonusUnits == 10
\* huber(x, k=1.0)
HuberK == 1
\* QuantileAgent(num_quantiles=...)
NumQuantiles == 2
\* QAgent(lr=...) = QLrNum / QLrDen
QLrNum == 1
QLrDen == 2
\* QuantileAgent(lr=...) = LrNum / LrDen.  The update adds
\* lr / (2 n^3) times a sum of whole counts; lr = 2 n^3 keeps it whole.
LrNum == 16
LrDen == 1
\* discount = DiscountNum / DiscountDen (the default 1.0 of both agents)
DiscountNum == 1
DiscountDen == 1

\* 1.0 in a QuantileAgent run
Scale == 2 * Resolution

\* the most updates one run makes: an episode starts with at most max_steps
\* steps taken and takes at most num_states
MaxUpdates ==
    IF MaxBudget + MaxN > MaxBudgetNoNoise + MaxNNoNoise
    THEN MaxBudget + MaxN ELSE MaxBudgetNoNoise + MaxNNoNoise

\* 1.0 in a run of an agent of this kind.  A QAgent update halves (lr = 1/2),
\* so a QAgent run carries one more binary digit for each update.
Unit(kind) == IF kind = "Q" THEN Scale * 2 ^ MaxUpdates ELSE Scale

Actions == 0 .. (ActionDim - 1)
Quantiles == 0 .. (NumQuantiles - 1)
\* outcomes of np.random.randn() the model draws
NoiseVals == {-1, 1}

\* (kind, mean_exploration, active_quantile): QAgent(...) and
\* QuantileAgent(..., mean_exploration, active_quantile)
AgentConfigs ==
    { <<"Q", FALSE, -1>> }
    \cup { <<"Quantile", m, i>> : m \in BOOLEAN, i \in {-1, 0} }

\* Chain(n, up_std, left_std): (up_std, left_std) in halves
StdConfigs == { <<1, 0>>, <<0, 2>>, <<1, 2>> }

\* (num_states, (up_std, left_std), max_steps) of the runs
RunConfigs ==
    { <<n, sd, MaxBudget>> : n \in 1 .. MaxN, sd \in StdConfigs }
    \cup { <<n, <<0, 0>>, ms>> : n \in 1 .. MaxNNoNoise, ms \in 0 .. MaxBudgetNoNoise }

Abs(x) == IF x < 0 THEN -x ELSE x

RECURSIVE SumOver(_, _)
SumOver(f, S) ==
    IF S = {} THEN 0
    ELSE LET x == CHOOSE y \in S : TRUE IN f[x] + SumOver(f, S \ {x})

\* np.max over a vector indexed by Actions
MaxOver(f) == CHOOSE m \in {f[a] : a \in Actions} : \A a \in Actions : f[a] <= m

\* np.argmax: the first index that holds the maximum
ArgmaxFirst(f) ==
    CHOOSE a \in Actions : /\ f[a] = MaxOver(f)
                           /\ \A b \in Actions : b < a => f[b] < f[a]

\* n * mean(-1) of one quantile vector
MeanN(v) == SumOver(v, Quantiles)

\* numpy indexing [..., i] with a negative index counting from the end
QIndex(i) == IF i < 0 THEN NumQuantiles + i ELSE i

\* ----------------------------------------------------------------- Chain
\* Chain.step(action) from self.state = s with the randn() draw nz:
\* state is the new self.state, ret the returned state.
ChainStepAlwaysBonus(c, s, a, nz) ==
    IF a = 0
    THEN [state |-> s + 1, ret |-> s + 1,
          reward |-> nz * c.left_std + BonusUnits * Unit(c.kind),
          done |-> (s + 1 = c.num_states), noise |-> nz * c.left_std]
    ELSE [state |-> s, ret |-> -1, reward |-> nz * c.up_std,
          done |-> TRUE, noise |-> nz * c.up_std]

ChainStepLateDone(c, s, a, nz) ==
    IF a = 0
    THEN [state |-> s + 1, ret |-> s + 1,
          reward |-> nz * c.left_std
                     + (IF s = c.num_states THEN BonusUnits * Unit(c.kind) ELSE 0),
          done |-> (s = c.num_states), noise |-> nz * c.left_std]
    ELSE [state |-> s, ret |-> -1, reward |-> nz * c.up_std,
          done |-> TRUE, noise |-> nz * c.up_std]

ChainStepEscapeKeepsState(c, s, a, nz) ==
    IF a = 0
    THEN [state |-> s + 1, ret |-> s + 1,
          reward |-> nz * c.left_std
                     + (IF s + 1 = c.num_states THEN BonusUnits * Unit(c.kind) ELSE 0),
          done |-> (s + 1 = c.num_states), noise |-> nz * c.left_std]
    ELSE [state |-> s, ret |-> s, reward |-> nz * c.up_std,
          done |-> TRUE, noise |-> nz * c.up_std]

ChainStep(c, s, a, nz) ==
    IF a = 0
    THEN [state |-> s + 1, ret |-> s + 1,
          reward |-> nz * c.left_std
                     + (IF s + 1 = c.num_states THEN BonusUnits * Unit(c.kind) ELSE 0),
          done |-> (s + 1 = c.num_states), noise |-> nz * c.left_std]
    ELSE [state |-> s, ret |-> -1, reward |-> nz * c.up_std,
          done |-> TRUE, noise |-> nz * c.up_std]

\* ---------------------------------------------------------------- QAgent
\* QAgent.act, greedy branch: the candidates list
QCandidatesFirst(qv, s) == {ArgmaxFirst(qv[s])}

QCandidates(qv, s) == {i \in Actions : qv[s][i] = MaxOver(qv[s])}

\* QAgent.episode: target
QTarget(qv, ns, dn) ==
    IF dn THEN 0 ELSE (DiscountNum * MaxOver(qv[ns])) \div DiscountDen

\* QAgent.episode: td_error and the in-place update of q_values[state, action]
QUpdateNoSubtract(qv, s, a, r, ns, dn) ==
    [qv EXCEPT ![s][a] = @ + (QLrNum * (r + QTarget(qv, ns, dn))) \div QLrDen]

QUpdate(qv, s, a, r, ns, dn) ==
    [qv EXCEPT ![s][a] = @ + (QLrNum * (r + QTarget(qv, ns, dn) - @)) \div QLrDen]

\* --------------------------------------------------------- QuantileAgent
\* QuantileAgent.act: the vector q the candidates are taken from
\* (ev is the eval flag)
SummaryIgnoresEval(c, qv, s, ev) ==
    [a \in Actions |->
        IF c.mean_exploration
        THEN MeanN(qv[s][a])
        ELSE qv[s][a][QIndex(c.active_quantile)]]

Summary(c, qv, s, ev) ==
    [a \in Actions |->
        IF ev \/ c.mean_exploration
        THEN MeanN(qv[s][a])
        ELSE qv[s][a][QIndex(c.active_quantile)]]

\* QuantileAgent.act: the candidates list
QuantCandidates(c, qv, s, ev) ==
    LET qq == Summary(c, qv, s, ev)
    IN  {i \in Actions : qq[i] = MaxOver(qq)}

\* QuantileAgent.episode: a_next = argmax of the mean at next_state
BootstrapActionBySummary(c, qv, ns) == ArgmaxFirst(Summary(c, qv, ns, FALSE))

BootstrapAction(c, qv, ns) ==
    ArgmaxFirst([a \in Actions |-> MeanN(qv[ns][a])])

\* QuantileAgent.episode: target (after target += reward)
QuantTarget(c, qv, r, ns, dn) ==
    IF dn
    THEN [j \in Quantiles |-> 0 + r]
    ELSE [j \in Quantiles |->
            (DiscountNum * qv[ns][BootstrapAction(c, qv, ns)][j]) \div DiscountDen + r]

\* diff[i, j] = quantiles_next[i] - quantiles[j]
Diff(t, cur) == [i \in Quantiles |-> [j \in Quantiles |-> t[i] - cur[j]]]

\* QuantileAgent.huber(x), times 2 * Scale^2 (x in counts of 1/Scale)
Huber2InvertedCond(x) ==
    IF Abs(x) > HuberK * Scale
    THEN x * x
    ELSE 2 * HuberK * Scale * Abs(x) - HuberK * HuberK * Scale * Scale

Huber2(x) ==
    IF Abs(x) < HuberK * Scale
    THEN x * x
    ELSE 2 * HuberK * Scale * Abs(x) - HuberK * HuberK * Scale * Scale

\* d huber / dx (cond is detached), in counts of 1/Scale
HuberGrad(x) ==
    IF Abs(x) < HuberK * Scale THEN x
    ELSE IF x > 0 THEN HuberK * Scale
    ELSE IF x < 0 THEN -(HuberK * Scale) ELSE 0

\* |cumulative_density[j] - (diff < 0)|, times 2 * num_quantiles
Weight(x, j) == IF x < 0 THEN 2 * NumQuantiles - (2 * j + 1) ELSE 2 * j + 1

\* loss.mean(), times 4 * num_quantiles^3 * Scale^2
LossNum(t, cur) ==
    LET d == Diff(t, cur)
    IN  SumOver([p \in Quantiles \X Quantiles |->
                    Huber2(d[p[1]][p[2]]) * Weight(d[p[1]][p[2]], p[2])],
                Quantiles \X Quantiles)

\* quantiles.grad[j], times 2 * num_quantiles^3
GradNum(t, cur, j) ==
    LET d == Diff(t, cur)
    IN  - SumOver([i \in Quantiles |-> HuberGrad(d[i][j]) * Weight(d[i][j], j)],
                  Quantiles)

\* q_values[state, action] -= lr * quantiles.grad
QuantUpdate(c, qv, s, a, r, ns, dn) ==
    LET t == QuantTarget(c, qv, r, ns, dn)
        cur == qv[s][a]
    IN  [qv EXCEPT ![s][a] =
            [j \in Quantiles |->
                cur[j] - (LrNum * GradNum(t, cur, j))
                            \div (LrDen * 2 * NumQuantiles * NumQuantiles * NumQuantiles)]]

\* ------------------------------------------------------ check_optimality
\* q_values.mean(-1) for a 3-D table (times n), the table itself for a 2-D one
Collapse(c, qv) ==
    [s \in 0 .. (c.num_states - 1) |->
        [a \in Actions |->
            IF c.kind = "Quantile" THEN MeanN(qv[s][a]) ELSE qv[s][a]]]

CheckOptimalityNonStrict(c, qv) ==
    LET v == Collapse(c, qv)
    IN  Cardinality({s \in DOMAIN v : v[s][0] - v[s][1] >= 0}) = Cardinality(DOMAIN v)

CheckOptimality(c, qv) ==
    LET v == Collapse(c, qv)
    IN  Cardinality({s \in DOMAIN v : v[s][0] - v[s][1] > 0}) = Cardinality(DOMAIN v)

\* ---------------------------------------------------------- run_episodes
\* the two exits of the loop: [stop, total] from optimal, total_steps, max_steps
LoopExitClampAlways(opt, ts, ms) ==
    IF opt \/ ts > ms THEN [stop |-> TRUE, total |-> IF ts > ms THEN ms ELSE ts]
    ELSE [stop |-> FALSE, total |-> ts]

LoopExit(opt, ts, ms) ==
    IF opt THEN [stop |-> TRUE, total |-> ts]
    ELSE IF ts > ms THEN [stop |-> TRUE, total |-> ms]
    ELSE [stop |-> FALSE, total |-> ts]

\* ------------------------------------------------------------------ state
VARIABLES
    cfg,          \* constructor and call parameters (never change)
    envState,     \* agent.env.state
    evalEnvState, \* agent.eval_env.state
    q,            \* agent.q_values
    totalSteps,   \* agent.total_steps
    ep,           \* run_episodes: ep
    optimal,      \* run_episodes: optimal
    pc,           \* position of the run
    state, action, nextState, reward, done,  \* episode(): locals
    evalState, evalAction,                   \* eval(): locals
    target,       \* episode(): target of the last update
    loss,         \* QuantileAgent.episode(): loss of the last update (LossNum)
    explored,     \* act(): the epsilon branch was taken (for the pending action)
    noiseTerm,    \* Chain.step: randn() * std of the last step
    epSteps       \* env.step calls since env.reset()

vars == <<cfg, envState, evalEnvState, q, totalSteps, ep, optimal, pc,
          state, action, nextState, reward, done, evalState, evalAction,
          target, loss, explored, noiseTerm, epSteps>>

States == 0 .. (cfg.num_states - 1)

ZeroTable(kind, n) ==
    [s \in 0 .. (n - 1) |->
        [a \in Actions |->
            IF kind = "Quantile" THEN [j \in Quantiles |-> 0] ELSE 0]]

Init ==
    /\ \E ac \in AgentConfigs, rc \in RunConfigs :
          /\ cfg = [kind |-> ac[1], mean_exploration |-> ac[2],
                    active_quantile |-> ac[3], num_states |-> rc[1],
                    up_std |-> rc[2][1] * (Unit(ac[1]) \div 2),
                    left_std |-> rc[2][2] * (Unit(ac[1]) \div 2),
                    max_steps |-> rc[3]]
          /\ q = ZeroTable(ac[1], rc[1])
          /\ target = IF ac[1] = "Quantile" THEN [j \in Quantiles |-> 0] ELSE 0
    /\ envState = 0
    /\ evalEnvState = 0
    /\ totalSteps = 0
    /\ ep = 0
    /\ optimal = FALSE
    /\ pc = "episode"
    /\ state = 0
    /\ action = 0
    /\ nextState = 0
    /\ reward = 0
    /\ done = FALSE
    /\ evalState = 0
    /\ evalAction = 0
    /\ loss = 0
    /\ explored = FALSE
    /\ noiseTerm = 0
    /\ epSteps = 0

\* the candidates list of the agent's act
Candidates(ev, s) ==
    IF cfg.kind = "Q" THEN QCandidates(q, s) ELSE QuantCandidates(cfg, q, s, ev)

\* episode(): state = self.env.reset()
EpisodeReset ==
    /\ pc = "episode"
    /\ envState' = 0
    /\ state' = 0
    /\ epSteps' = 0
    /\ pc' = "act"
    /\ UNCHANGED <<cfg, evalEnvState, q, totalSteps, ep, optimal, action,
                   nextState, reward, done, evalState, evalAction, target,
                   loss, explored, noiseTerm>>

\* act(state): np.random.rand() < epsilon, np.random.randint(action_dim)
ActRandom ==
    /\ pc = "act"
    /\ action' \in Actions
    /\ explored' = TRUE
    /\ pc' = "step"
    /\ UNCHANGED <<cfg, envState, evalEnvState, q, totalSteps, ep, optimal,
                   state, nextState, reward, done, evalState, evalAction,
                   target, loss, noiseTerm, epSteps>>

\* act(state): np.random.choice(candidates)
ActGreedy ==
    /\ pc = "act"
    /\ action' \in Candidates(FALSE, state)
    /\ explored' = FALSE
    /\ pc' = "step"
    /\ UNCHANGED <<cfg, envState, evalEnvState, q, totalSteps, ep, optimal,
                   state, nextState, reward, done, evalState, evalAction,
                   target, loss, noiseTerm, epSteps>>

\* episode(): next_state, reward, done, _ = self.env.step(action);
\* self.total_steps += 1
TrainStep ==
    /\ pc = "step"
    /\ \E nz \in NoiseVals :
          LET r == ChainStep(cfg, envState, action, nz)
          IN  /\ envState' = r.state
              /\ nextState' = r.ret
              /\ reward' = r.reward
              /\ done' = r.done
              /\ noiseTerm' = r.noise
    /\ totalSteps' = totalSteps + 1
    /\ epSteps' = epSteps + 1
    /\ explored' = FALSE
    /\ pc' = "update"
    /\ UNCHANGED <<cfg, evalEnvState, q, ep, optimal, state, action,
                   evalState, evalAction, target, loss>>

\* episode(): if done: break; state = next_state
LoopTail ==
    /\ pc' = IF done THEN "check" ELSE "act"
    /\ state' = IF done THEN state ELSE nextState

\* QAgent.episode(): target, td_error, update
QAgentUpdate ==
    /\ pc = "update"
    /\ cfg.kind = "Q"
    /\ target' = QTarget(q, nextState, done)
    /\ q' = QUpdate(q, state, action, reward, nextState, done)
    /\ LoopTail
    /\ UNCHANGED <<cfg, envState, evalEnvState, totalSteps, ep, optimal,
                   action, nextState, reward, done, evalState, evalAction,
                   loss, explored, noiseTerm, epSteps>>

\* QuantileAgent.episode(): target, diff, loss, backward, update
QuantileAgentUpdate ==
    /\ pc = "update"
    /\ cfg.kind = "Quantile"
    /\ target' = QuantTarget(cfg, q, reward, nextState, done)
    /\ loss' = LossNum(QuantTarget(cfg, q, reward, nextState, done), q[state][action])
    /\ q' = QuantUpdate(cfg, q, state, action, reward, nextState, done)
    /\ LoopTail
    /\ UNCHANGED <<cfg, envState, evalEnvState, totalSteps, ep, optimal,
                   action, nextState, reward, done, evalState, evalAction,
                   explored, noiseTerm, epSteps>>

\* run_episodes: ep += 1; optimal = check_optimality(...); the two breaks
RunEpisodesCheck ==
    /\ pc = "check"
    /\ ep' = ep + 1
    /\ optimal' = CheckOptimality(cfg, q)
    /\ LET x == LoopExit(CheckOptimality(cfg, q), totalSteps, cfg.max_steps)
       IN  /\ totalSteps' = x.total
           /\ pc' = IF x.stop THEN "returned" ELSE "episode"
    /\ UNCHANGED <<cfg, envState, evalEnvState, q, state, action, nextState,
                   reward, done, evalState, evalAction, target, loss,
                   explored, noiseTerm, epSteps>>

\* BaseAgent.eval(): state = self.eval_env.reset()
EvalReset ==
    /\ pc = "returned"
    /\ evalEnvState' = 0
    /\ evalState' = 0
    /\ pc' = "eval_act"
    /\ UNCHANGED <<cfg, envState, q, totalSteps, ep, optimal, state, action,
                   nextState, reward, done, evalAction, target, loss,
                   explored, noiseTerm, epSteps>>

\* BaseAgent.eval(): action = self.act(state, eval=True)
EvalAct ==
    /\ pc = "eval_act"
    /\ evalAction' \in Candidates(TRUE, evalState)
    /\ pc' = "eval_step"
    /\ UNCHANGED <<cfg, envState, evalEnvState, q, totalSteps, ep, optimal,
                   state, action, nextState, reward, done, evalState, target,
                   loss, explored, noiseTerm, epSteps>>

\* BaseAgent.eval(): state, reward, done, _ = self.eval_env.step(action);
\* if done: break
EvalStep ==
    /\ pc = "eval_step"
    /\ \E nz \in NoiseVals :
          LET r == ChainStep(cfg, evalEnvState, evalAction, nz)
          IN  /\ evalEnvState' = r.state
              /\ evalState' = r.ret
              /\ pc' = IF r.done THEN "returned" ELSE "eval_act"
    /\ UNCHANGED <<cfg, envState, q, totalSteps, ep, optimal, state, action,
                   nextState, reward, done, evalAction, target, loss,
                   explored, noiseTerm, epSteps>>

Next ==
    \/ EpisodeReset
    \/ ActRandom
    \/ ActGreedy
    \/ TrainStep
    \/ QAgentUpdate
    \/ QuantileAgentUpdate
    \/ RunEpisodesCheck
    \/ EvalReset
    \/ EvalAct
    \/ EvalStep

Spec == Init /\ [][Next]_vars

\* The program is sequential: a step that can be taken is taken.
FairSpec == Spec /\ WF_vars(Next)

\* Every quotient the updates form is exact.
ArithmeticExact ==
    pc = "update" =>
        IF cfg.kind = "Q"
        THEN (QLrNum * (reward + QTarget(q, nextState, done) - q[state][action]))
                 % QLrDen = 0
        ELSE \A j \in Quantiles :
                (LrNum * GradNum(QuantTarget(cfg, q, reward, nextState, done),
                                 q[state][action], j))
                    % (LrDen * 2 * NumQuantiles * NumQuantiles * NumQuantiles) = 0


\* ------------------------------------------------------------ properties
IsQuantile == cfg.kind = "Quantile"

\* the sum of a quantile vector: n times its mean, so comparing two sums
\* compares the two means
VecSum(v) == SumOver(v, Quantiles)

\* actions whose quantile vector at s has the largest mean
MeanBest(s) ==
    {a \in Actions : \A b \in Actions : VecSum(q[s][a]) >= VecSum(q[s][b])}

\* the quantile of action a at s that active_quantile designates
ActiveQ(s, a) ==
    q[s][a][IF cfg.active_quantile >= 0 THEN cfg.active_quantile
            ELSE NumQuantiles - (0 - cfg.active_quantile)]

\* actions whose designated quantile at s is the largest
ActiveBest(s) ==
    {a \in Actions : \A b \in Actions : ActiveQ(s, a) >= ActiveQ(s, b)}

\* the value the agent's act ranks action a by at s (ev: evaluation mode)
ActValue(ev, s, a) ==
    IF ~IsQuantile THEN q[s][a]
    ELSE IF ev \/ cfg.mean_exploration THEN VecSum(q[s][a])
    ELSE ActiveQ(s, a)

\* the actions tied for the largest value
Tied(ev, s) ==
    {a \in Actions : \A b \in Actions : ActValue(ev, s, a) >= ActValue(ev, s, b)}

\* value(s, advance) > value(s, escape) in every state
AdvanceBetterEverywhere ==
    \A s \in States :
        IF IsQuantile THEN VecSum(q[s][0]) > VecSum(q[s][1])
        ELSE q[s][0] > q[s][1]

TimesDiscount(x) == (DiscountNum * x) \div DiscountDen

\* C1: in QuantileAgent.episode the target of the update is reward in every
\* component when the transition is terminal, and otherwise
\* reward + discount * Q(next_state, a, :) for an action a whose quantile
\* vector at next_state has the largest mean, whatever mean_exploration and
\* active_quantile are.
C1_TargetByMean ==
    [][(pc = "update" /\ IsQuantile) =>
          IF done
          THEN target' = [j \in Quantiles |-> reward]
          ELSE \E a \in MeanBest(nextState) :
                  target' = [j \in Quantiles |->
                                reward + TimesDiscount(q[nextState][a][j])]]_vars

\* a non-terminal update has just bootstrapped from the action with the best
\* mean although the agent's own summary (active_quantile) ranks another first
C1_Witness ==
    /\ IsQuantile /\ ~cfg.mean_exploration
    /\ pc = "act" /\ epSteps > 0 /\ ~done /\ state = nextState
    /\ MeanBest(state) \cap ActiveBest(state) = {}
    /\ \E a \in MeanBest(state) :
          target = [j \in Quantiles |-> reward + TimesDiscount(q[state][a][j])]

\* C2 as stated: whenever the target vector equals the current quantile
\* vector of (state, action), the loss is 0 and the vector is left unchanged.
C2_TargetEqualsCurrent ==
    [][(pc = "update" /\ IsQuantile
        /\ QuantTarget(cfg, q, reward, nextState, done) = q[state][action]) =>
          (loss' = 0 /\ q'[state][action] = q[state][action])]_vars

\* C2, amended: whenever every pairwise difference target[i] - current[j] is
\* zero (the target equals the current vector and all its components are
\* equal), the loss is 0 and the update leaves the table unchanged.
C2_ZeroDiff ==
    [][(pc = "update" /\ IsQuantile
        /\ \A i, j \in Quantiles :
              QuantTarget(cfg, q, reward, nextState, done)[i]
                  - q[state][action][j] = 0) =>
          (loss' = 0 /\ q' = q)]_vars

\* a non-terminal update whose target and current vector were the same
\* constant vector has just left the table as it was
C2_Witness ==
    /\ IsQuantile /\ pc = "act" /\ epSteps > 0 /\ ~done /\ state = nextState
    /\ loss = 0
    /\ \A j \in Quantiles : target[j] = q[state - 1][action][j]
    /\ \A j \in Quantiles : target[j] = target[0]

\* C3: QuantileAgent.act in evaluation mode returns an action with the
\* largest mean, whatever mean_exploration and active_quantile are; in
\* training mode, when the epsilon draw does not fire, it returns an action
\* with the largest mean if mean_exploration, and otherwise with the largest
\* quantile at index active_quantile (negative indices from the end).
C3_ActSummary ==
    /\ (IsQuantile /\ pc = "step" /\ ~explored) =>
          IF cfg.mean_exploration THEN action \in MeanBest(state)
          ELSE action \in ActiveBest(state)
    /\ (IsQuantile /\ pc = "eval_step") => evalAction \in MeanBest(evalState)

\* evaluation has just chosen the action with the best mean where the
\* agent's training summary (active_quantile) ranks only the other one first
C3_Witness ==
    /\ IsQuantile /\ ~cfg.mean_exploration
    /\ pc = "eval_step"
    /\ evalAction \in MeanBest(evalState)
    /\ evalAction \notin ActiveBest(evalState)

\* C4: check_optimality is true exactly when advance is strictly better
\* than escape in every state (by the mean, for a 3-D table); an all-zero
\* table is not optimal.
C4_CheckOptimality ==
    (pc \in {"episode", "returned", "eval_act", "eval_step"} /\ ep > 0) =>
        /\ optimal <=> AdvanceBetterEverywhere
        /\ q = ZeroTable(cfg.kind, cfg.num_states) => ~optimal

\* the check has just said "not optimal" for a table that is strictly
\* better in one state and exactly tied in another
C4_Witness ==
    /\ pc = "episode" /\ ep > 0 /\ ~optimal
    /\ \E s \in States : ActValue(TRUE, s, 0) > ActValue(TRUE, s, 1)
    /\ \E s \in States : ActValue(TRUE, s, 0) = ActValue(TRUE, s, 1)
    /\ \A s \in States : ActValue(TRUE, s, 0) >= ActValue(TRUE, s, 1)

\* C5 as stated (its conclusion): the value run_episodes returns never
\* exceeds max_steps.
C5_ReturnWithinBudget ==
    pc = "returned" => totalSteps <= cfg.max_steps

\* C5, amended: when the step count exceeds max_steps at the end of an
\* episode, training stops; if the table is not optimal the count is clamped
\* and max_steps is returned; if the table is optimal the count is returned
\* as it is.  A run that ends without having converged returns at most
\* max_steps.
C5_BudgetExit ==
    [][/\ (pc = "check" /\ totalSteps > cfg.max_steps) =>
              /\ pc' = "returned"
              /\ totalSteps' = IF AdvanceBetterEverywhere THEN totalSteps
                               ELSE cfg.max_steps
              /\ optimal' = AdvanceBetterEverywhere
       /\ (pc' = "returned" /\ ~optimal') => totalSteps' <= cfg.max_steps]_vars

\* the run has ended on the budget, not converged, with the count clamped
C5_Witness ==
    /\ pc = "returned" /\ ~optimal /\ ~AdvanceBetterEverywhere
    /\ totalSteps = cfg.max_steps /\ ep > 1

\* C6: after reset the k-th consecutive advance returns state k, is done
\* exactly when k = num_states, and carries the bonus 10.0 exactly on that
\* step; with left_std = 0 the reward is 0 before and 10 on that step.
C6_Advance ==
    (pc = "update" /\ action = 0) =>
        /\ nextState = epSteps
        /\ done <=> (epSteps = cfg.num_states)
        /\ reward - noiseTerm =
              (IF epSteps = cfg.num_states THEN BonusUnits * Unit(cfg.kind) ELSE 0)
        /\ noiseTerm \in {nz * cfg.left_std : nz \in NoiseVals}
        /\ cfg.left_std = 0 =>
              reward = (IF epSteps = cfg.num_states THEN BonusUnits * Unit(cfg.kind) ELSE 0)

\* the second advance of an episode on Chain(2) with left_std = 0 has just
\* terminated with reward 10
C6_Witness ==
    /\ pc = "update" /\ action = 0 /\ epSteps = 2 /\ cfg.num_states = 2
    /\ cfg.left_std = 0 /\ done /\ reward = BonusUnits * Unit(cfg.kind)

\* C7: escape returns done = true and the state -1, which is outside
\* 0..num_states; its reward is the up_std noise alone, so 0 when up_std = 0
\* and never with the bonus.
C7_Escape ==
    (pc = "update" /\ action = 1) =>
        /\ done
        /\ nextState = -1
        /\ nextState \notin 0 .. cfg.num_states
        /\ reward \in {nz * cfg.up_std : nz \in NoiseVals}
        /\ cfg.up_std = 0 => reward = 0

\* escape has just been taken from state 1, with up_std = 0
C7_Witness ==
    /\ pc = "update" /\ action = 1 /\ state = 1 /\ envState = 1
    /\ cfg.up_std = 0 /\ done /\ nextState = -1 /\ reward = 0

\* C8: in QAgent.episode the step after env.step is the one update
\* Q(state, action) += lr * (reward + target - Q(state, action)), with
\* target 0 if done and discount * max Q(next_state, .) of the table before
\* the update otherwise; every other entry is unchanged, and the table
\* changes in no other step.
C8_QUpdate ==
    [][/\ (pc = "update" /\ ~IsQuantile) =>
              LET tgt == IF done THEN 0
                         ELSE TimesDiscount(MaxOver(q[nextState]))
              IN  /\ \A s \in States, a \in Actions :
                        q'[s][a] =
                            IF s = state /\ a = action
                            THEN q[s][a]
                                 + (QLrNum * (reward + tgt - q[s][a])) \div QLrDen
                            ELSE q[s][a]
                  /\ pc' \in {"act", "check"}
       /\ pc = "step" => pc' = "update"
       /\ pc # "update" => q' = q]_vars

\* a non-terminal update of a non-zero entry from a non-zero target has
\* just been made
C8_Witness ==
    /\ ~IsQuantile /\ pc = "act" /\ epSteps > 0 /\ ~done
    /\ target # 0 /\ q[state - 1][action] # 0
    /\ q[state - 1][action] # (QLrNum * (reward + target)) \div QLrDen

\* C9: when act does not take the epsilon branch (never in evaluation mode)
\* the action returned is one of those tied for the largest value at the
\* current state, and each of the tied actions can be returned; for QAgent
\* and for QuantileAgent.
C9_TieBreak ==
    /\ (pc = "step" /\ ~explored) => action \in Tied(FALSE, state)
    /\ pc = "eval_step" => evalAction \in Tied(TRUE, evalState)
    /\ pc = "act" =>
          \A a \in Tied(FALSE, state) : ENABLED (ActGreedy /\ action' = a)
    /\ pc = "eval_act" =>
          \A a \in Tied(TRUE, evalState) : ENABLED (EvalAct /\ evalAction' = a)

\* the greedy branch has just returned the second of two tied actions, in
\* a table that is no longer all zero
C9_Witness ==
    /\ pc = "step" /\ ~explored /\ action = 1
    /\ Tied(FALSE, state) = Actions
    /\ q # ZeroTable(cfg.kind, cfg.num_states)

\* C10: run_episodes terminates; an episode takes at most num_states steps
\* and at least one, the table is indexed only at states 0..num_states-1,
\* and every environment step adds one to total_steps.
C10_Terminates ==
    /\ [](/\ pc \in {"act", "step", "update"} => state \in States
          /\ (pc = "update" /\ ~done) => nextState \in States
          /\ pc \in {"eval_act", "eval_step"} => evalState \in States
          /\ epSteps <= cfg.num_states
          /\ pc = "check" => epSteps >= 1)
    /\ [][pc = "step" => totalSteps' = totalSteps + 1]_vars
    /\ <>(pc = "returned")

\* a run of several episodes on Chain(2) has returned
C10_Witness ==
    /\ pc = "returned" /\ cfg.num_states = 2 /\ ep >= 3
    /\ epSteps = 2

====
